---- MODULE Spec2Model ----
(***************************************************************************)
(* Model of rebuild_table_with_column_reorder.py: one run of               *)
(* rebuild_with_inferred_and_inserted_columns.  The run reads the column   *)
(* metadata of a table, plans the new column order with                    *)
(* insert_new_columns (one loop iteration per step), synthesises the       *)
(* CREATE TABLE and INSERT ... SELECT texts, and then issues CREATE,       *)
(* INSERT, DROP and sp_rename through the cursor, each of which may raise. *)
(* The tables the session sees are tracked as the effect of the            *)
(* statements that returned; what the driver does to an open transaction   *)
(* when the connection is closed is outside the source and not modelled.   *)
(***************************************************************************)
EXTENDS Integers, Sequences, FiniteSets, TLC

VARIABLES
    catalog,            \* rows the catalog query yields for (schema, table)
    new_columns,        \* the caller's list of insertion requests
    pc,                 \* position of the run
    existing_cols,      \* result of fetch_ordered_metadata
    ordered,            \* working list of insert_new_columns
    i,                  \* 1-based index of the request the loop is at
    origin,             \* history: for each element of ordered, 0 for a column
                        \* read from the catalog, else the index of its request
    new_ordered_cols,   \* result of insert_new_columns
    col_defs,           \* rendered column definitions
    insert_cols,        \* INSERT column list
    select_exprs,       \* SELECT expression list
    insert_batch_parts, \* statements of the copy batch
    log,                \* statements handed to cur.execute, with outcome
    db,                 \* names of the tables the session sees
    error               \* the exception that ended the run, or None

vars == << catalog, new_columns, pc, existing_cols, ordered, i, origin,
           new_ordered_cols, col_defs, insert_cols, select_exprs,
           insert_batch_parts, log, db, error >>

-----------------------------------------------------------------------------
(* Bounds of the model *)

MaxNew == 2

-----------------------------------------------------------------------------
(* Values *)

None == "<None>"

Schema == "dbo"

Table == "Person"

tmp_suffix == "_TmpReorder"

full_table == "[" \o Schema \o "].[" \o Table \o "]"

tmp_table_name == Table \o tmp_suffix

full_tmp_table == "[" \o Schema \o "].[" \o tmp_table_name \o "]"

\* str.lower() on the identifiers that occur in the model
Lower(s) ==
    CASE s \in {"Id", "ID", "id"} -> "id"
      [] s \in {"Name", "NAME", "name"} -> "name"
      [] s \in {"CreatedAt", "createdat"} -> "createdat"
      [] OTHER -> s

\* str.upper() on the type names that occur in the model
Upper(s) ==
    CASE s \in {"int", "INT"} -> "INT"
      [] s \in {"char", "CHAR"} -> "CHAR"
      [] s \in {"nchar", "NCHAR"} -> "NCHAR"
      [] s \in {"varchar", "VarChar", "VARCHAR"} -> "VARCHAR"
      [] s \in {"nvarchar", "NVarChar", "NVARCHAR"} -> "NVARCHAR"
      [] s \in {"binary", "BINARY"} -> "BINARY"
      [] s \in {"varbinary", "VARBINARY"} -> "VARBINARY"
      [] s \in {"decimal", "DECIMAL"} -> "DECIMAL"
      [] s \in {"numeric", "Numeric", "NUMERIC"} -> "NUMERIC"
      [] s \in {"datetime2", "DATETIME2"} -> "DATETIME2"
      [] s \in {"time", "TIME"} -> "TIME"
      [] s \in {"datetimeoffset", "DATETIMEOFFSET"} -> "DATETIMEOFFSET"
      [] s \in {"float", "FLOAT"} -> "FLOAT"
      [] s \in {"sysname", "SYSNAME"} -> "SYSNAME"
      [] OTHER -> s

RECURSIVE Join(_, _)
Join(parts, sep) ==
    IF parts = << >> THEN ""
    ELSE IF Len(parts) = 1 THEN parts[1]
    ELSE parts[1] \o sep \o Join(Tail(parts), sep)

\* the byte length is not halved
IntHalf_same(x) == x

\* int(x / 2): true division, then truncation toward zero
IntHalf(x) == IF x >= 0 THEN x \div 2 ELSE -((-x) \div 2)

-----------------------------------------------------------------------------
(* The inputs: catalog contents and insertion requests *)

Row(n, t, len, p, s, nullable, ident, def) ==
    [column_name |-> n, data_type |-> t, max_length |-> len, precision |-> p,
     scale |-> s, is_nullable |-> nullable, is_identity |-> ident,
     default_definition |-> def]

\* Column names of one table are unique under the database's
\* case-insensitive collation, and rows come ordered by column_id.
Catalogs ==
    { << >>,
      << Row("Id", "int", 4, 10, 0, 0, 1, None) >>,
      << Row("Id", "int", 4, 10, 0, 0, 1, None),
         Row("Name", "varchar", 50, 0, 0, 1, 0, None) >>,
      << Row("Name", "nvarchar", 100, 0, 0, 0, 0, "(N'')"),
         Row("Id", "int", 4, 10, 0, 0, 0, None) >> }

Request(n, t, nullable, ident, def, pos, anchor) ==
    [name |-> n, type |-> t, nullable |-> nullable, identity |-> ident,
     default |-> def, position |-> pos, anchor |-> anchor]

NewNames == {"CreatedAt", "NAME", "Id"}

Anchors == {"ID", "createdat"}

Requests ==
    { Request(n, "DATETIME2(3)", TRUE, FALSE, None, p, a) :
        n \in NewNames, p \in {"before", "after"}, a \in Anchors }
    \cup
    { Request(n, "DATETIME2(3)", FALSE, FALSE, "SYSUTCDATETIME()", p, a) :
        n \in NewNames, p \in {"before", "after"}, a \in Anchors }
    \cup
    { Request(n, "INT", FALSE, TRUE, None, p, a) :
        n \in NewNames, p \in {"before", "after"}, a \in Anchors }
    \cup
    { Request("CreatedAt", "DATETIME2(3)", TRUE, FALSE, None, "middle", a) :
        a \in Anchors }

RequestLists == UNION { [1..n -> Requests] : n \in 0..MaxNew }

\* Type names as sys.types spells them, and in other spellings
TypeNames ==
    {"char", "nchar", "varchar", "nvarchar", "binary", "varbinary",
     "decimal", "numeric", "datetime2", "time", "datetimeoffset",
     "int", "float", "sysname", "VarChar", "NVARCHAR", "Numeric"}

MaxLengths == {-1, 8, 50, 100}

PrecisionScales == { <<0, 0>>, <<18, 2>>, <<27, 7>> }

\* One-column catalogs over every combination of the type facts
TypeCatalogs ==
    { << Row("Id", t, len, ps[1], ps[2], 0, 0, None) >> :
        t \in TypeNames, len \in MaxLengths, ps \in PrecisionScales }

-----------------------------------------------------------------------------
(* fetch_ordered_metadata *)

TypeStr(row) ==
    LET data_type == Upper(row.data_type) IN
    IF data_type \in {"CHAR", "NCHAR", "VARCHAR", "NVARCHAR", "BINARY", "VARBINARY"}
    THEN IF row.max_length = -1
         THEN data_type \o "(MAX)"
         ELSE LET length == IF data_type \in {"NCHAR", "NVARCHAR"}
                            THEN IntHalf(row.max_length)
                            ELSE row.max_length
              IN data_type \o "(" \o ToString(length) \o ")"
    ELSE IF data_type \in {"DECIMAL", "NUMERIC"}
    THEN data_type \o "(" \o ToString(row.precision) \o "," \o ToString(row.scale) \o ")"
    ELSE IF data_type \in {"DATETIME2", "TIME", "DATETIMEOFFSET"}
    THEN data_type \o "(" \o ToString(row.scale) \o ")"
    ELSE data_type

ColOfRow(row) ==
    [name |-> row.column_name,
     type |-> TypeStr(row),
     is_nullable |-> (row.is_nullable # 0),
     is_identity |-> (row.is_identity # 0),
     default |-> row.default_definition]

fetch_ordered_metadata(rows) == [k \in 1..Len(rows) |-> ColOfRow(rows[k])]

\* The table is in the database exactly when the catalog has columns for it.
InitialTables(rows) == IF rows = << >> THEN {} ELSE {Table}

-----------------------------------------------------------------------------
(* build_col_def *)

build_col_def(col) ==
    LET nullable == IF col.is_nullable THEN "NULL" ELSE "NOT NULL"
        identity == IF col.is_identity THEN " IDENTITY(1,1)" ELSE ""
        default == IF col.default # None /\ col.default # ""
                   THEN " DEFAULT " \o col.default ELSE ""
    IN "[" \o col.name \o "] " \o col.type \o identity \o default \o " " \o nullable

-----------------------------------------------------------------------------
(* insert_new_columns: the pieces of one loop iteration *)

ValidPosition(pos) == pos \in {"before", "after"}

NewMeta(new_col) ==
    [name |-> new_col.name,
     type |-> new_col.type,
     is_nullable |-> new_col.nullable,
     is_identity |-> new_col.identity,
     default |-> new_col.default]

\* 0-based index of the first column whose name matches the anchor, or -1
AnchorIndex(cols, anchor) ==
    LET hits == { k \in 1..Len(cols) : Lower(cols[k].name) = Lower(anchor) }
    IN IF hits = {} THEN -1
       ELSE (CHOOSE k \in hits : \A m \in hits : k <= m) - 1

\* the two sides swapped
InsertIdx_swapped(idx, pos) == IF pos = "after" THEN idx ELSE idx + 1

InsertIdx(idx, pos) == IF pos = "after" THEN idx + 1 ELSE idx

\* list.insert(k, e) for 0 <= k <= len(cols)
ListInsert(cols, k, e) ==
    [m \in 1..(Len(cols) + 1) |->
        IF m <= k THEN cols[m] ELSE IF m = k + 1 THEN e ELSE cols[m - 1]]

-----------------------------------------------------------------------------
(* rebuild_with_inferred_and_inserted_columns: SQL synthesis *)

ColDefs(cols) == [k \in 1..Len(cols) |-> build_col_def(cols[k])]

CreateSql(defs) ==
    "CREATE TABLE " \o full_tmp_table \o " (\n    "
        \o Join(defs, ",\n    ") \o "\n);"

\* the column list is built back to front
InsertCols_reversed(cols) ==
    [k \in 1..Len(cols) |-> "[" \o cols[Len(cols) + 1 - k].name \o "]"]

InsertCols(cols) == [k \in 1..Len(cols) |-> "[" \o cols[k].name \o "]"]

ExistingNames(existing) == { Lower(existing[k].name) : k \in 1..Len(existing) }

\* next(n for n in new_columns if n["name"].lower() == col_name.lower())
FindSpec(requests, col_name) ==
    LET hits == { k \in 1..Len(requests) :
                    Lower(requests[k].name) = Lower(col_name) }
    IN requests[CHOOSE k \in hits : \A m \in hits : k <= m]

SelectExpr(c, existing, requests) ==
    IF Lower(c.name) \in ExistingNames(existing)
    THEN "[" \o c.name \o "]"
    ELSE LET default == FindSpec(requests, c.name).default IN
         IF default # None
         THEN default \o " AS [" \o c.name \o "]"
         ELSE "NULL AS [" \o c.name \o "]"

SelectExprs(cols, existing, requests) ==
    [k \in 1..Len(cols) |-> SelectExpr(cols[k], existing, requests)]

\* only the first column is looked at
HasIdentity_first(cols) == cols # << >> /\ cols[1].is_identity

HasIdentity(cols) == \E k \in 1..Len(cols) : cols[k].is_identity

IdentityInsertOn == "SET IDENTITY_INSERT " \o full_tmp_table \o " ON;"

IdentityInsertOff == "SET IDENTITY_INSERT " \o full_tmp_table \o " OFF;"

InsertSelect(icols, sexprs) ==
    "INSERT INTO " \o full_tmp_table \o " (" \o Join(icols, ", ") \o ")\n"
        \o "SELECT " \o Join(sexprs, ", ") \o "\n"
        \o "FROM " \o full_table \o " WITH (HOLDLOCK TABLOCKX);"

InsertBatchParts(cols, icols, sexprs) ==
    IF HasIdentity(cols)
    THEN << IdentityInsertOn, InsertSelect(icols, sexprs), IdentityInsertOff >>
    ELSE << InsertSelect(icols, sexprs) >>

InsertSql(parts) == Join(parts, "\n")

DropSql == "DROP TABLE " \o full_table \o ";"

RenameSql ==
    "EXEC sp_rename N'" \o full_tmp_table \o "', N'" \o Table \o "', 'OBJECT';"

\* The statements of step 5, in the order they are handed to cur.execute
MigrationSteps == << "CREATE", "INSERT", "DROP", "RENAME" >>

SqlOf(op, defs, parts) ==
    CASE op = "CREATE" -> CreateSql(defs)
      [] op = "INSERT" -> InsertSql(parts)
      [] op = "DROP" -> DropSql
      [] op = "RENAME" -> RenameSql

\* DROP names the temporary table instead of the original
Effect_drop_tmp(op, tables) ==
    CASE op = "CREATE" -> tables \cup {tmp_table_name}
      [] op = "INSERT" -> tables
      [] op = "DROP" -> tables \ {tmp_table_name}
      [] op = "RENAME" -> (tables \ {tmp_table_name}) \cup {Table}

\* What a statement that returned has done to the tables the session sees
Effect(op, tables) ==
    CASE op = "CREATE" -> tables \cup {tmp_table_name}
      [] op = "INSERT" -> tables
      [] op = "DROP" -> tables \ {Table}
      [] op = "RENAME" -> (tables \ {tmp_table_name}) \cup {Table}

-----------------------------------------------------------------------------
(* The run *)

Init ==
    /\ catalog \in Catalogs
    /\ new_columns \in RequestLists
    /\ pc = "fetch"
    /\ existing_cols = << >>
    /\ ordered = << >>
    /\ i = 0
    /\ origin = << >>
    /\ new_ordered_cols = << >>
    /\ col_defs = << >>
    /\ insert_cols = << >>
    /\ select_exprs = << >>
    /\ insert_batch_parts = << >>
    /\ log = << >>
    /\ db = InitialTables(catalog)
    /\ error = None

\* line 172: existing_cols = fetch_ordered_metadata(cur, schema, table)
FetchMetadata ==
    /\ pc = "fetch"
    /\ existing_cols' = fetch_ordered_metadata(catalog)
    /\ pc' = "plan_copy"
    /\ UNCHANGED << catalog, new_columns, ordered, i, origin, new_ordered_cols, col_defs,
                    insert_cols, select_exprs, insert_batch_parts, log, db, error >>

\* the temporary table is created before the plan is validated
PlanCopy_create_first ==
    /\ pc = "plan_copy"
    /\ ordered' = existing_cols
    /\ origin' = [k \in 1..Len(existing_cols) |-> 0]
    /\ i' = 1
    /\ pc' = "plan"
    /\ log' = Append(log, [op |-> "CREATE", sql |-> CreateSql(col_defs), ok |-> TRUE])
    /\ db' = db \cup {tmp_table_name}
    /\ UNCHANGED << catalog, new_columns, existing_cols, new_ordered_cols, col_defs,
                    insert_cols, select_exprs, insert_batch_parts, error >>

\* line 110: ordered = existing_cols.copy()
PlanCopy ==
    /\ pc = "plan_copy"
    /\ ordered' = existing_cols
    /\ origin' = [k \in 1..Len(existing_cols) |-> 0]
    /\ i' = 1
    /\ pc' = "plan"
    /\ UNCHANGED << catalog, new_columns, existing_cols, new_ordered_cols, col_defs,
                    insert_cols, select_exprs, insert_batch_parts, log, db, error >>

\* the anchor is looked up before the position is checked
PlanStep_anchor_first ==
    /\ pc = "plan"
    /\ i <= Len(new_columns)
    /\ LET new_col == new_columns[i]
           anchor == new_col.anchor
           pos == new_col.position
           idx == AnchorIndex(ordered, anchor)
       IN IF idx = -1
          THEN /\ error' = "Anchor column '" \o anchor \o "' not found"
               /\ pc' = "failed"
               /\ UNCHANGED << ordered, i, origin >>
          ELSE IF ~ValidPosition(pos)
          THEN /\ error' = "position must be 'before' or 'after'"
               /\ pc' = "failed"
               /\ UNCHANGED << ordered, i, origin >>
          ELSE /\ ordered' = ListInsert(ordered, InsertIdx(idx, pos), NewMeta(new_col))
               /\ origin' = ListInsert(origin, InsertIdx(idx, pos), i)
               /\ i' = i + 1
               /\ UNCHANGED << pc, error >>
    /\ UNCHANGED << catalog, new_columns, existing_cols, new_ordered_cols, col_defs,
                    insert_cols, select_exprs, insert_batch_parts, log, db >>

\* ordered is the caller's list itself, not a copy of it
PlanStep_aliased ==
    /\ pc = "plan"
    /\ i <= Len(new_columns)
    /\ LET new_col == new_columns[i]
           anchor == new_col.anchor
           pos == new_col.position
           idx == AnchorIndex(ordered, anchor)
       IN IF ~ValidPosition(pos)
          THEN /\ error' = "position must be 'before' or 'after'"
               /\ pc' = "failed"
               /\ UNCHANGED << ordered, i, origin, existing_cols >>
          ELSE IF idx = -1
          THEN /\ error' = "Anchor column '" \o anchor \o "' not found"
               /\ pc' = "failed"
               /\ UNCHANGED << ordered, i, origin, existing_cols >>
          ELSE /\ ordered' = ListInsert(ordered, InsertIdx(idx, pos), NewMeta(new_col))
               /\ existing_cols' = ordered'
               /\ origin' = ListInsert(origin, InsertIdx(idx, pos), i)
               /\ i' = i + 1
               /\ UNCHANGED << pc, error >>
    /\ UNCHANGED << catalog, new_columns, new_ordered_cols, col_defs,
                    insert_cols, select_exprs, insert_batch_parts, log, db >>

\* lines 112-137: one iteration of the loop over new_columns
PlanStep ==
    /\ pc = "plan"
    /\ i <= Len(new_columns)
    /\ LET new_col == new_columns[i]
           anchor == new_col.anchor
           pos == new_col.position
           idx == AnchorIndex(ordered, anchor)
       IN IF ~ValidPosition(pos)
          THEN /\ error' = "position must be 'before' or 'after'"
               /\ pc' = "failed"
               /\ UNCHANGED << ordered, i, origin >>
          ELSE IF idx = -1
          THEN /\ error' = "Anchor column '" \o anchor \o "' not found"
               /\ pc' = "failed"
               /\ UNCHANGED << ordered, i, origin >>
          ELSE /\ ordered' = ListInsert(ordered, InsertIdx(idx, pos), NewMeta(new_col))
               /\ origin' = ListInsert(origin, InsertIdx(idx, pos), i)
               /\ i' = i + 1
               /\ UNCHANGED << pc, error >>
    /\ UNCHANGED << catalog, new_columns, existing_cols, new_ordered_cols, col_defs,
                    insert_cols, select_exprs, insert_batch_parts, log, db >>

\* line 139 and line 175: return ordered; new_ordered_cols = ...
PlanReturn ==
    /\ pc = "plan"
    /\ i > Len(new_columns)
    /\ new_ordered_cols' = ordered
    /\ pc' = "synth"
    /\ UNCHANGED << catalog, new_columns, existing_cols, ordered, i, origin, col_defs,
                    insert_cols, select_exprs, insert_batch_parts, log, db, error >>

\* lines 177-218: build the CREATE TABLE text and the copy batch
Synthesize ==
    /\ pc = "synth"
    /\ col_defs' = ColDefs(new_ordered_cols)
    /\ insert_cols' = InsertCols(new_ordered_cols)
    /\ select_exprs' = SelectExprs(new_ordered_cols, existing_cols, new_columns)
    /\ insert_batch_parts' =
          InsertBatchParts(new_ordered_cols, insert_cols', select_exprs')
    /\ pc' = "exec"
    /\ UNCHANGED << catalog, new_columns, existing_cols, ordered, i, origin,
                    new_ordered_cols, log, db, error >>

\* lines 221-224: the next cur.execute returns
ExecuteOk ==
    /\ pc = "exec"
    /\ LET op == MigrationSteps[Len(log) + 1] IN
         /\ log' = Append(log, [op |-> op,
                                sql |-> SqlOf(op, col_defs, insert_batch_parts),
                                ok |-> TRUE])
         /\ db' = Effect(op, db)
    /\ pc' = IF Len(log') = Len(MigrationSteps) THEN "commit" ELSE "exec"
    /\ UNCHANGED << catalog, new_columns, existing_cols, ordered, i, origin,
                    new_ordered_cols, col_defs, insert_cols, select_exprs,
                    insert_batch_parts, error >>

\* the exception is swallowed and the run goes on to the next statement
ExecuteRaise_swallow ==
    /\ pc = "exec"
    /\ LET op == MigrationSteps[Len(log) + 1] IN
         log' = Append(log, [op |-> op,
                             sql |-> SqlOf(op, col_defs, insert_batch_parts),
                             ok |-> FALSE])
    /\ pc' = IF Len(log') = Len(MigrationSteps) THEN "commit" ELSE "exec"
    /\ UNCHANGED << catalog, new_columns, existing_cols, ordered, i, origin,
                    new_ordered_cols, col_defs, insert_cols, select_exprs,
                    insert_batch_parts, db, error >>

\* an except clause drops the temporary table before re-raising
ExecuteRaise_cleanup ==
    /\ pc = "exec"
    /\ LET op == MigrationSteps[Len(log) + 1] IN
         /\ log' = log \o << [op |-> op,
                              sql |-> SqlOf(op, col_defs, insert_batch_parts),
                              ok |-> FALSE],
                             [op |-> "DROP",
                              sql |-> "DROP TABLE " \o full_tmp_table \o ";",
                              ok |-> TRUE] >>
         /\ error' = "execute " \o op
    /\ db' = db \ {tmp_table_name}
    /\ pc' = "failed"
    /\ UNCHANGED << catalog, new_columns, existing_cols, ordered, i, origin,
                    new_ordered_cols, col_defs, insert_cols, select_exprs,
                    insert_batch_parts >>

\* lines 221-224: the next cur.execute raises; nothing catches it
ExecuteRaise ==
    /\ pc = "exec"
    /\ LET op == MigrationSteps[Len(log) + 1] IN
         /\ log' = Append(log, [op |-> op,
                                sql |-> SqlOf(op, col_defs, insert_batch_parts),
                                ok |-> FALSE])
         /\ error' = "execute " \o op
    /\ pc' = "failed"
    /\ UNCHANGED << catalog, new_columns, existing_cols, ordered, i, origin,
                    new_ordered_cols, col_defs, insert_cols, select_exprs,
                    insert_batch_parts, db >>

\* line 225: conn.commit()
Commit ==
    /\ pc = "commit"
    /\ \E ok \in BOOLEAN :
         IF ok THEN pc' = "done" /\ error' = error
         ELSE pc' = "failed" /\ error' = "commit"
    /\ UNCHANGED << catalog, new_columns, existing_cols, ordered, i, origin,
                    new_ordered_cols, col_defs, insert_cols, select_exprs,
                    insert_batch_parts, log, db >>

\* the process is stopped between two statements of step 5
Abort ==
    /\ pc = "exec"
    /\ pc' = "aborted"
    /\ UNCHANGED << catalog, new_columns, existing_cols, ordered, i, origin,
                    new_ordered_cols, col_defs, insert_cols, select_exprs,
                    insert_batch_parts, log, db, error >>

Next ==
    \/ FetchMetadata
    \/ PlanCopy
    \/ PlanStep
    \/ PlanReturn
    \/ Synthesize
    \/ ExecuteOk
    \/ ExecuteRaise
    \/ Commit
    \/ Abort

Spec == Init /\ [][Next]_vars

-----------------------------------------------------------------------------
(* fetch_ordered_metadata alone, over the type facts of one column *)

InitTypes ==
    /\ catalog \in TypeCatalogs
    /\ new_columns = << >>
    /\ pc = "fetch"
    /\ existing_cols = << >>
    /\ ordered = << >>
    /\ i = 0
    /\ origin = << >>
    /\ new_ordered_cols = << >>
    /\ col_defs = << >>
    /\ insert_cols = << >>
    /\ select_exprs = << >>
    /\ insert_batch_parts = << >>
    /\ log = << >>
    /\ db = InitialTables(catalog)
    /\ error = None

NextTypes == FetchMetadata

SpecTypes == InitTypes /\ [][NextTypes]_vars

-----------------------------------------------------------------------------
(* Helpers of the properties *)

Planned == pc \in {"synth", "exec", "commit", "done", "aborted"}
              \/ (pc = "failed" /\ log # << >>)
              \/ (pc = "failed" /\ error = "commit")

Synthesized == pc \in {"exec", "commit", "done", "aborted"}
                  \/ (pc = "failed" /\ log # << >>)
                  \/ (pc = "failed" /\ error = "commit")

Count(cols, n) == Cardinality({ k \in 1..Len(cols) : cols[k].name = n })

SameName(a, b) == Lower(a) = Lower(b)

UniqueNames(cols) ==
    \A k, m \in 1..Len(cols) : SameName(cols[k].name, cols[m].name) => k = m

\* 1-based position of the first column the anchor matches, 0 if none
FirstMatch(cols, anchor) ==
    IF \E k \in 1..Len(cols) : SameName(cols[k].name, anchor)
    THEN CHOOSE k \in 1..Len(cols) :
            /\ SameName(cols[k].name, anchor)
            /\ \A m \in 1..(k - 1) : ~SameName(cols[m].name, anchor)
    ELSE 0

-----------------------------------------------------------------------------
(* C1: whenever insert_new_columns returns (every anchor was found), the   *)
(* returned list has len(L) + len(I) elements and holds every original     *)
(* name exactly once and every inserted name exactly once.                 *)
C1_PlanHoldsEachNameOnce ==
    Planned =>
        /\ Len(new_ordered_cols) = Len(existing_cols) + Len(new_columns)
        /\ \A k \in 1..Len(existing_cols) :
              Count(new_ordered_cols, existing_cols[k].name) = 1
        /\ \A k \in 1..Len(new_columns) :
              Count(new_ordered_cols, new_columns[k].name) = 1

(* C2: each loop iteration takes the request at the loop index, finds the  *)
(* first column of the current working list whose name matches the anchor  *)
(* case-insensitively, and puts the new column at that index for 'before'  *)
(* and one past it for 'after', so the new column is next to its anchor on *)
(* the requested side; and the requests [A after X, B after A], A being a  *)
(* new name, give X, A, B as consecutive columns.                          *)
C2_StepPlacesNextToAnchor ==
    (pc = "plan" /\ pc' = "plan" /\ i' = i + 1) =>
        LET new_col == new_columns[i]
            a == FirstMatch(ordered, new_col.anchor)
            k == IF new_col.position = "after" THEN a + 1 ELSE a
        IN /\ a > 0
           /\ Len(ordered') = Len(ordered) + 1
           /\ ordered'[k] = NewMeta(new_col)
           /\ \A m \in 1..(k - 1) : ordered'[m] = ordered[m]
           /\ \A m \in k..Len(ordered) : ordered'[m + 1] = ordered[m]
           /\ IF new_col.position = "after"
              THEN SameName(ordered'[k - 1].name, new_col.anchor)
              ELSE SameName(ordered'[k + 1].name, new_col.anchor)

C2_ChainIsConsecutive ==
    ( /\ Planned
      /\ Len(new_columns) = 2
      /\ new_columns[1].position = "after"
      /\ new_columns[2].position = "after"
      /\ SameName(new_columns[2].anchor, new_columns[1].name)
      /\ \A k \in 1..Len(existing_cols) :
            ~SameName(existing_cols[k].name, new_columns[1].name) )
    => \E m \in 1..(Len(new_ordered_cols) - 2) :
          /\ SameName(new_ordered_cols[m].name, new_columns[1].anchor)
          /\ new_ordered_cols[m + 1] = NewMeta(new_columns[1])
          /\ new_ordered_cols[m + 2] = NewMeta(new_columns[2])

C2_SequentialAnchorResolution ==
    [][C2_StepPlacesNextToAnchor]_vars /\ []C2_ChainIsConsecutive

\* Id, CreatedAt, NAME out of [CreatedAt after ID, NAME after createdat]
C2_Witness ==
    /\ pc = "synth"
    /\ Len(existing_cols) = 1
    /\ Len(new_columns) = 2
    /\ new_columns[1].position = "after"
    /\ new_columns[2].position = "after"
    /\ new_columns[1].name = "CreatedAt"
    /\ new_columns[2].name = "NAME"
    /\ new_columns[2].anchor = "createdat"
    /\ new_ordered_cols[1].name = "Id"
    /\ new_ordered_cols[2].name = "CreatedAt"
    /\ new_ordered_cols[3].name = "NAME"

(* C3: an insertion whose name equals, case-insensitively, a name already  *)
(* in the working list makes planning fail, so neither the working list    *)
(* nor a returned planned list ever holds two names that are equal         *)
(* case-insensitively.                                                     *)
C3_NoDuplicateNames ==
    UniqueNames(ordered) /\ UniqueNames(new_ordered_cols)

(* C4: when planning fails (unknown anchor or invalid position) no         *)
(* statement has been handed to the cursor and the tables are as they      *)
(* were: the original is still there and there is no temporary table.      *)
IsPlanningError(e) ==
    \/ e = "position must be 'before' or 'after'"
    \/ \E a \in Anchors : e = "Anchor column '" \o a \o "' not found"

C4_PlanningErrorTouchesNothing ==
    (pc = "failed" /\ IsPlanningError(error)) =>
        /\ log = << >>
        /\ db = InitialTables(catalog)
        /\ tmp_table_name \notin db
        /\ (catalog # << >> => Table \in db)

\* the second request names an anchor that is not there
C4_Witness ==
    /\ pc = "failed"
    /\ catalog # << >>
    /\ i = 2
    /\ error = "Anchor column 'createdat' not found"
    /\ log = << >>
    /\ db = {Table}

(* C5: the statements handed to the cursor are a prefix of CREATE, INSERT, *)
(* DROP, RENAME, each at most once; a statement is issued only after all   *)
(* earlier ones returned; DROP is never issued unless the copy returned.   *)
C5_StatementsArePrefix ==
    /\ Len(log) <= Len(MigrationSteps)
    /\ \A k \in 1..Len(log) : log[k].op = MigrationSteps[k]
    /\ \A k \in 1..(Len(log) - 1) : log[k].ok
    /\ \A k \in 1..Len(log) :
          log[k].op = "DROP" =>
              \E m \in 1..(k - 1) : log[m].op = "INSERT" /\ log[m].ok
    /\ (pc \in {"commit", "done"} =>
          Len(log) = Len(MigrationSteps) /\ \A k \in 1..Len(log) : log[k].ok)

\* DROP was issued after CREATE and the copy, and raised
C5_Witness ==
    /\ pc = "failed"
    /\ Len(log) = 3
    /\ log[1].ok /\ log[2].ok
    /\ log[3].op = "DROP" /\ ~log[3].ok

(* C6: the SELECT expression of a planned column is the bracketed name     *)
(* when the column was read from the catalog; for an inserted column it is *)
(* the default of its request, aliased to the name, when one was given,    *)
(* and NULL aliased to the name otherwise.                                 *)
C6_SelectExprByOrigin ==
    Synthesized =>
        /\ Len(select_exprs) = Len(new_ordered_cols)
        /\ \A k \in 1..Len(new_ordered_cols) :
              LET c == new_ordered_cols[k] IN
              IF origin[k] = 0
              THEN select_exprs[k] = "[" \o c.name \o "]"
              ELSE LET default == new_columns[origin[k]].default IN
                   IF default # None
                   THEN select_exprs[k] = default \o " AS [" \o c.name \o "]"
                   ELSE select_exprs[k] = "NULL AS [" \o c.name \o "]"

(* C7: the copy batch is SET IDENTITY_INSERT ON, the INSERT ... SELECT,    *)
(* SET IDENTITY_INSERT OFF exactly when some planned column, read or       *)
(* inserted, is an identity column; otherwise it is the INSERT alone.      *)
C7_IdentityBracketing ==
    Synthesized =>
        LET insert == InsertSelect(insert_cols, select_exprs) IN
        IF \E k \in 1..Len(new_ordered_cols) : new_ordered_cols[k].is_identity
        THEN insert_batch_parts =
                << "SET IDENTITY_INSERT [dbo].[Person_TmpReorder] ON;",
                   insert,
                   "SET IDENTITY_INSERT [dbo].[Person_TmpReorder] OFF;" >>
        ELSE insert_batch_parts = << insert >>

\* no identity column in the table, one among the inserted columns
C7_Witness ==
    /\ pc = "exec"
    /\ \A k \in 1..Len(existing_cols) : ~existing_cols[k].is_identity
    /\ Len(existing_cols) = 2
    /\ \E k \in 2..Len(new_ordered_cols) : new_ordered_cols[k].is_identity
    /\ Len(insert_batch_parts) = 3

(* C8: when the catalog has no column for the table, reading the metadata  *)
(* fails with a not-found error: the run never gets to planning or to a    *)
(* statement with an empty list of existing columns.                       *)
C8_EmptyCatalogStopsTheRun ==
    catalog = << >> =>
        \/ pc = "fetch"
        \/ (pc = "failed" /\ error = "NotFoundError" /\ log = << >>)

ByteLengthTypes == {"CHAR", "VARCHAR", "BINARY", "VARBINARY"}

UnicodeTypes == {"NCHAR", "NVARCHAR"}

ExpectedType(row) ==
    LET T == Upper(row.data_type)
        sized == T \in ByteLengthTypes \cup UnicodeTypes
    IN CASE sized /\ row.max_length = -1 -> T \o "(MAX)"
         [] sized /\ row.max_length # -1 /\ T \in ByteLengthTypes ->
               T \o "(" \o ToString(row.max_length) \o ")"
         [] sized /\ row.max_length # -1 /\ T \in UnicodeTypes ->
               T \o "(" \o ToString(row.max_length \div 2) \o ")"
         [] T \in {"DECIMAL", "NUMERIC"} ->
               T \o "(" \o ToString(row.precision) \o ","
                 \o ToString(row.scale) \o ")"
         [] T \in {"DATETIME2", "TIME", "DATETIMEOFFSET"} ->
               T \o "(" \o ToString(row.scale) \o ")"
         [] OTHER -> T

TypeExample(row, text) ==
    CASE row.data_type = "varchar" /\ row.max_length = 50 -> text = "VARCHAR(50)"
      [] row.data_type = "nvarchar" /\ row.max_length = 100 -> text = "NVARCHAR(50)"
      [] row.data_type = "NVARCHAR" /\ row.max_length = 8 -> text = "NVARCHAR(4)"
      [] row.data_type = "varchar" /\ row.max_length = -1 -> text = "VARCHAR(MAX)"
      [] row.data_type = "nchar" /\ row.max_length = -1 -> text = "NCHAR(MAX)"
      [] row.data_type = "decimal" /\ row.precision = 18 /\ row.scale = 2 ->
            text = "DECIMAL(18,2)"
      [] row.data_type = "datetime2" /\ row.scale = 7 -> text = "DATETIME2(7)"
      [] row.data_type = "int" -> text = "INT"
      [] row.data_type = "sysname" -> text = "SYSNAME"
      [] OTHER -> TRUE

C11_TypeStrings ==
    pc # "fetch" =>
        /\ Len(existing_cols) = Len(catalog)
        /\ \A k \in 1..Len(catalog) :
              /\ existing_cols[k].type = ExpectedType(catalog[k])
              /\ TypeExample(catalog[k], existing_cols[k].type)

\* nvarchar with a byte length of 100 has been read as NVARCHAR(50)
C11_Witness ==
    /\ pc = "plan_copy"
    /\ catalog[1].data_type = "nvarchar"
    /\ catalog[1].max_length = 100
    /\ existing_cols[1].type = "NVARCHAR(50)"

(* C12: in the list insert_new_columns works on and returns, the columns   *)
(* read from the catalog are all there, in their input order and with the  *)
(* descriptor they had; and the list passed in, existing_cols, is never    *)
(* changed by the planning.                                                *)
RECURSIVE FromCatalog(_, _)
FromCatalog(cols, from) ==
    IF cols = << >> THEN << >>
    ELSE IF Head(from) = 0
         THEN << Head(cols) >> \o FromCatalog(Tail(cols), Tail(from))
         ELSE FromCatalog(Tail(cols), Tail(from))

C12_ExistingColumnsKept ==
    /\ (pc = "plan" \/ Planned) =>
          /\ Len(origin) = Len(ordered)
          /\ FromCatalog(ordered, origin) = existing_cols
    /\ Planned =>
          /\ FromCatalog(new_ordered_cols, origin) = existing_cols
          /\ \A k \in 1..Len(existing_cols) :
                existing_cols[k] = ColOfRow(catalog[k])

C12_InputListUntouched ==
    pc # "fetch" => existing_cols' = existing_cols

C12_PlanningFrame ==
    []C12_ExistingColumnsKept /\ [][C12_InputListUntouched]_vars

\* a column was put between the two columns of the table
C12_Witness ==
    /\ pc = "synth"
    /\ Len(existing_cols) = 2
    /\ origin = << 0, 1, 0 >>
    /\ new_ordered_cols[1] = existing_cols[1]
    /\ new_ordered_cols[3] = existing_cols[2]

(* C13: the column definitions of CREATE TABLE, the INSERT column list and *)
(* the SELECT list have one entry per planned column, in planned order,    *)
(* and the k-th entry of each names the k-th planned column: the k-th      *)
(* selected value goes to the column of the same name.                     *)
DefTails(c) ==
    { c.type \o ident \o def \o " " \o nullable :
        ident \in {"", " IDENTITY(1,1)"},
        def \in {"", " DEFAULT (N'')", " DEFAULT SYSUTCDATETIME()"},
        nullable \in {"NULL", "NOT NULL"} }

SelectHeads == {"", "NULL AS ", "SYSUTCDATETIME() AS "}

C13_EntriesFollowThePlan ==
    Synthesized =>
        /\ Len(col_defs) = Len(new_ordered_cols)
        /\ Len(insert_cols) = Len(new_ordered_cols)
        /\ Len(select_exprs) = Len(new_ordered_cols)
        /\ \A k \in 1..Len(new_ordered_cols) :
              LET bracketed == "[" \o new_ordered_cols[k].name \o "]" IN
              /\ insert_cols[k] = bracketed
              /\ \E tail \in DefTails(new_ordered_cols[k]) :
                    col_defs[k] = bracketed \o " " \o tail
              /\ \E head \in SelectHeads :
                    select_exprs[k] = head \o bracketed

\* Id, CreatedAt, Name: CreatedAt put after Id with a default
C13_Witness ==
    /\ pc = "exec"
    /\ insert_cols = << "[Id]", "[CreatedAt]", "[Name]" >>
    /\ select_exprs = << "[Id]", "SYSUTCDATETIME() AS [CreatedAt]", "[Name]" >>
    /\ col_defs = << "[Id] INT IDENTITY(1,1) NOT NULL",
                     "[CreatedAt] DATETIME2(3) DEFAULT SYSUTCDATETIME() NOT NULL",
                     "[Name] VARCHAR(50) NULL" >>

(* C14: requests are validated one by one in caller order, the position   *)
(* before the anchor.  When planning fails, every request before the       *)
(* failing one was inserted, and the error is the failing request's: the   *)
(* position error when its position is invalid, whether or not its anchor  *)
(* is known, and otherwise the error naming its unknown anchor.            *)
PlanningFailed == pc = "failed" /\ log = << >> /\ error # "commit"

C14_FirstInvalidRequestReported ==
    /\ PlanningFailed =>
          /\ i \in 1..Len(new_columns)
          /\ \A k \in 1..(i - 1) : new_columns[k].position \in {"before", "after"}
          /\ Len(ordered) = Len(existing_cols) + (i - 1)
          /\ \A k \in 1..(i - 1) :
                \E m \in 1..Len(ordered) : ordered[m] = NewMeta(new_columns[k])
          /\ IF new_columns[i].position \notin {"before", "after"}
             THEN error = "position must be 'before' or 'after'"
             ELSE /\ \A m \in 1..Len(ordered) :
                        ~SameName(ordered[m].name, new_columns[i].anchor)
                  /\ error = "Anchor column '" \o new_columns[i].anchor
                                \o "' not found"
    /\ Planned =>
          \A k \in 1..Len(new_columns) :
              new_columns[k].position \in {"before", "after"}

\* the second request has an invalid position and an unknown anchor
C14_Witness ==
    /\ pc = "failed"
    /\ i = 2
    /\ Len(ordered) = Len(existing_cols) + 1
    /\ new_columns[2].position = "middle"
    /\ new_columns[2].anchor = "createdat"
    /\ \A m \in 1..Len(ordered) : ~SameName(ordered[m].name, "createdat")
    /\ error = "position must be 'before' or 'after'"

====
